---- MODULE Spec2Model ----
(***************************************************************************)
(* The group resource and the group data source of the OpenWebUI Terraform *)
(* provider: GroupResource.Create / Read / Update / Delete / ImportState   *)
(* and GroupDataSource.Read, with the remote groups API they call.         *)
(*                                                                         *)
(* Go values are modelled as follows.                                      *)
(*   string            a TLA+ string; a user id, which sort.Strings        *)
(*                     compares, is the sequence of its bytes              *)
(*   []string          [nil |-> BOOLEAN, elems |-> sequence]               *)
(*   *GroupPermissions [nil |-> TRUE] or [nil |-> FALSE, v |-> struct]     *)
(*   types.String      [null |-> BOOLEAN, value |-> string]                *)
(*   types.List        [null |-> BOOLEAN, elems |-> sequence of elements]  *)
(*   types.Object      [null |-> TRUE] or [null |-> FALSE, attrs |-> rec]  *)
(*   JSON permissions  null, or an object of objects of booleans, which    *)
(*                     may lack keys                                       *)
(***************************************************************************)
EXTENDS Integers, Sequences, FiniteSets, TLC

VARIABLES
  remote,   \* the remote API's store: [groups |-> list of Group, created |-> count]
  state,    \* the resource's record in the host's state store, or NoState
  data,     \* the record the data source wrote, or NoState
  op,       \* the latest invocation: its name, its plan or config, the prior
            \* state, and whether it reached State.Set
  calls,    \* the remote calls the latest invocation issued, in order
  diags,    \* the error diagnostics the latest invocation reported
  conv,     \* the permission mapper taken alone: a value and its conversions
  wire      \* the permissions JSON of the response body the client decoded

vars == <<remote, state, data, op, calls, diags, conv, wire>>

----------------------------------------------------------------------------
\* Bounds of the model.

\* Groups the remote API creates in one run.
MaxGroups == 1

\* Longest member list enumerated as an input.
MaxMembers == 2

----------------------------------------------------------------------------
\* Go strings, slices and pointers.

\* User ids "a", "ab", "b" as byte sequences.
UserIdSet == { <<97>>, <<97, 98>>, <<98>> }

\* Go's < on strings: bytewise lexicographic order.
RECURSIVE StrLess(_, _)
StrLess(a, b) ==
  IF b = <<>> THEN FALSE
  ELSE IF a = <<>> THEN TRUE
  ELSE IF Head(a) # Head(b) THEN Head(a) < Head(b)
  ELSE StrLess(Tail(a), Tail(b))

\* Insertion of x into an ascending sequence, after the elements not above it.
RECURSIVE InsertSorted(_, _)
InsertSorted(x, s) ==
  IF s = <<>> THEN <<x>>
  ELSE IF StrLess(x, Head(s)) THEN <<x>> \o s
  ELSE <<Head(s)>> \o InsertSorted(x, Tail(s))

RECURSIVE SortElems(_)
SortElems(s) ==
  IF s = <<>> THEN <<>> ELSE InsertSorted(Head(s), SortElems(Tail(s)))

NilSlice == [nil |-> TRUE, elems |-> <<>>]

Slice(s) == [nil |-> FALSE, elems |-> s]

\* sort.Strings(x): ascending order in place; a nil slice stays nil.
SortStrings(x) == [nil |-> x.nil, elems |-> SortElems(x.elems)]

NilPermissions == [nil |-> TRUE]

PermissionsPtr(p) == [nil |-> FALSE, v |-> p]

----------------------------------------------------------------------------
\* Values of the plugin framework.

StringNull == [null |-> TRUE, value |-> ""]

StringValue(s) == [null |-> FALSE, value |-> s]

\* types.String.ValueString: the string, "" for null.
ValueString(v) == IF v.null THEN "" ELSE v.value

\* A list element: a known string or null.
ElemNull == [null |-> TRUE, value |-> <<>>]

ElemValue(s) == [null |-> FALSE, value |-> s]

ListNull == [null |-> TRUE, elems |-> <<>>]

ListValue(es) == [null |-> FALSE, elems |-> es]

ObjectNull == [null |-> TRUE]

ObjectValue(a) == [null |-> FALSE, attrs |-> a]

\* types.List.ElementsAs(ctx, &userIDs, false) into a []string: a null list
\* leaves the slice nil, a null element is an error (a Go string holds no null).
ElementsAsOk(l) == \A i \in 1..Len(l.elems) : ~l.elems[i].null

ElementsAs(l) ==
  IF l.null THEN NilSlice
  ELSE Slice([i \in 1..Len(l.elems) |-> l.elems[i].value])

\* types.ListValueFrom(ctx, types.StringType, slice): a nil slice becomes the
\* null list, any other slice a list of known strings.
ListValueFrom(x) ==
  IF x.nil THEN ListNull
  ELSE ListValue([i \in 1..Len(x.elems) |-> ElemValue(x.elems[i])])

----------------------------------------------------------------------------
\* The permission mapper, as each handler spells it out.

\* Create: plan.Permissions.As into the local struct, by tfsdk tag.
CreatePermissionsAs(attrs) ==
  [ Workspace |-> [Models |-> attrs.workspace.models,
                   Knowledge |-> attrs.workspace.knowledge,
                   Prompts |-> attrs.workspace.prompts,
                   Tools |-> attrs.workspace.tools],
    Chat |-> [FileUpload |-> attrs.chat.file_upload,
              Delete |-> attrs.chat.delete,
              Edit |-> attrs.chat.edit,
              Temporary |-> attrs.chat.temporary,
              Controls |-> attrs.chat.controls,
              Valves |-> attrs.chat.valves,
              SystemPrompt |-> attrs.chat.system_prompt,
              Params |-> attrs.chat.params,
              DeleteMessage |-> attrs.chat.delete_message,
              ContinueResponse |-> attrs.chat.continue_response,
              RegenerateResponse |-> attrs.chat.regenerate_response,
              RateResponse |-> attrs.chat.rate_response,
              Share |-> attrs.chat.share,
              Export |-> attrs.chat.export,
              Stt |-> attrs.chat.stt,
              Tts |-> attrs.chat.tts,
              Call |-> attrs.chat.call,
              MultipleModels |-> attrs.chat.multiple_models,
              TemporaryEnforced |-> attrs.chat.temporary_enforced],
    Sharing |-> [PublicModels |-> attrs.sharing.public_models,
                 PublicKnowledge |-> attrs.sharing.public_knowledge,
                 PublicPrompts |-> attrs.sharing.public_prompts,
                 PublicTools |-> attrs.sharing.public_tools,
                 PublicNotes |-> attrs.sharing.public_notes],
    Features |-> [DirectToolServers |-> attrs.features.direct_tool_servers,
                  WebSearch |-> attrs.features.web_search,
                  ImageGeneration |-> attrs.features.image_generation,
                  CodeInterpreter |-> attrs.features.code_interpreter,
                  Notes |-> attrs.features.notes] ]

\* Create: the groups.GroupPermissions literal built from the local struct.
CreateGroupPermissions(permissions) ==
  [ Workspace |-> [Models |-> permissions.Workspace.Models,
                   Knowledge |-> permissions.Workspace.Knowledge,
                   Prompts |-> permissions.Workspace.Prompts,
                   Tools |-> permissions.Workspace.Tools],
    Chat |-> [FileUpload |-> permissions.Chat.FileUpload,
              Delete |-> permissions.Chat.Delete,
              Edit |-> permissions.Chat.Edit,
              Temporary |-> permissions.Chat.Temporary,
              Controls |-> permissions.Chat.Controls,
              Valves |-> permissions.Chat.Valves,
              SystemPrompt |-> permissions.Chat.SystemPrompt,
              Params |-> permissions.Chat.Params,
              DeleteMessage |-> permissions.Chat.DeleteMessage,
              ContinueResponse |-> permissions.Chat.ContinueResponse,
              RegenerateResponse |-> permissions.Chat.RegenerateResponse,
              RateResponse |-> permissions.Chat.RateResponse,
              Share |-> permissions.Chat.Share,
              Export |-> permissions.Chat.Export,
              Stt |-> permissions.Chat.Stt,
              Tts |-> permissions.Chat.Tts,
              Call |-> permissions.Chat.Call,
              MultipleModels |-> permissions.Chat.MultipleModels,
              TemporaryEnforced |-> permissions.Chat.TemporaryEnforced],
    Sharing |-> [PublicModels |-> permissions.Sharing.PublicModels,
                 PublicKnowledge |-> permissions.Sharing.PublicKnowledge,
                 PublicPrompts |-> permissions.Sharing.PublicPrompts,
                 PublicTools |-> permissions.Sharing.PublicTools,
                 PublicNotes |-> permissions.Sharing.PublicNotes],
    Features |-> [DirectToolServers |-> permissions.Features.DirectToolServers,
                  WebSearch |-> permissions.Features.WebSearch,
                  ImageGeneration |-> permissions.Features.ImageGeneration,
                  CodeInterpreter |-> permissions.Features.CodeInterpreter,
                  Notes |-> permissions.Features.Notes] ]

\* Update: plan.Permissions.As into the local struct, by tfsdk tag.
UpdatePermissionsAs(attrs) ==
  [ Workspace |-> [Models |-> attrs.workspace.models,
                   Knowledge |-> attrs.workspace.knowledge,
                   Prompts |-> attrs.workspace.prompts,
                   Tools |-> attrs.workspace.tools],
    Chat |-> [FileUpload |-> attrs.chat.file_upload,
              Delete |-> attrs.chat.delete,
              Edit |-> attrs.chat.edit,
              Temporary |-> attrs.chat.temporary,
              Controls |-> attrs.chat.controls,
              Valves |-> attrs.chat.valves,
              SystemPrompt |-> attrs.chat.system_prompt,
              Params |-> attrs.chat.params,
              DeleteMessage |-> attrs.chat.delete_message,
              ContinueResponse |-> attrs.chat.continue_response,
              RegenerateResponse |-> attrs.chat.regenerate_response,
              RateResponse |-> attrs.chat.rate_response,
              Share |-> attrs.chat.share,
              Export |-> attrs.chat.export,
              Stt |-> attrs.chat.stt,
              Tts |-> attrs.chat.tts,
              Call |-> attrs.chat.call,
              MultipleModels |-> attrs.chat.multiple_models,
              TemporaryEnforced |-> attrs.chat.temporary_enforced],
    Sharing |-> [PublicModels |-> attrs.sharing.public_models,
                 PublicKnowledge |-> attrs.sharing.public_knowledge,
                 PublicPrompts |-> attrs.sharing.public_prompts,
                 PublicTools |-> attrs.sharing.public_tools,
                 PublicNotes |-> attrs.sharing.public_notes],
    Features |-> [DirectToolServers |-> attrs.features.direct_tool_servers,
                  WebSearch |-> attrs.features.web_search,
                  ImageGeneration |-> attrs.features.image_generation,
                  CodeInterpreter |-> attrs.features.code_interpreter,
                  Notes |-> attrs.features.notes] ]

\* Update: the groups.GroupPermissions literal built from the local struct.
UpdateGroupPermissions(permissions) ==
  [ Workspace |-> [Models |-> permissions.Workspace.Models,
                   Knowledge |-> permissions.Workspace.Knowledge,
                   Prompts |-> permissions.Workspace.Prompts,
                   Tools |-> permissions.Workspace.Tools],
    Chat |-> [FileUpload |-> permissions.Chat.FileUpload,
              Delete |-> permissions.Chat.Delete,
              Edit |-> permissions.Chat.Edit,
              Temporary |-> permissions.Chat.Temporary,
              Controls |-> permissions.Chat.Controls,
              Valves |-> permissions.Chat.Valves,
              SystemPrompt |-> permissions.Chat.SystemPrompt,
              Params |-> permissions.Chat.Params,
              DeleteMessage |-> permissions.Chat.DeleteMessage,
              ContinueResponse |-> permissions.Chat.ContinueResponse,
              RegenerateResponse |-> permissions.Chat.RegenerateResponse,
              RateResponse |-> permissions.Chat.RateResponse,
              Share |-> permissions.Chat.Share,
              Export |-> permissions.Chat.Export,
              Stt |-> permissions.Chat.Stt,
              Tts |-> permissions.Chat.Tts,
              Call |-> permissions.Chat.Call,
              MultipleModels |-> permissions.Chat.MultipleModels,
              TemporaryEnforced |-> permissions.Chat.TemporaryEnforced],
    Sharing |-> [PublicModels |-> permissions.Sharing.PublicModels,
                 PublicKnowledge |-> permissions.Sharing.PublicKnowledge,
                 PublicPrompts |-> permissions.Sharing.PublicPrompts,
                 PublicTools |-> permissions.Sharing.PublicTools,
                 PublicNotes |-> permissions.Sharing.PublicNotes],
    Features |-> [DirectToolServers |-> permissions.Features.DirectToolServers,
                  WebSearch |-> permissions.Features.WebSearch,
                  ImageGeneration |-> permissions.Features.ImageGeneration,
                  CodeInterpreter |-> permissions.Features.CodeInterpreter,
                  Notes |-> permissions.Features.Notes] ]

\* GroupDataSource.Read: the four attribute maps and the permissions object.
DataPermissionsObj(p) ==
  [ workspace |-> [models |-> p.Workspace.Models,
                   knowledge |-> p.Workspace.Knowledge,
                   prompts |-> p.Workspace.Prompts,
                   tools |-> p.Workspace.Tools],
    chat |-> [file_upload |-> p.Chat.FileUpload,
              delete |-> p.Chat.Delete,
              edit |-> p.Chat.Edit,
              temporary |-> p.Chat.Temporary,
              controls |-> p.Chat.Controls,
              valves |-> p.Chat.Valves,
              system_prompt |-> p.Chat.SystemPrompt,
              params |-> p.Chat.Params,
              delete_message |-> p.Chat.DeleteMessage,
              continue_response |-> p.Chat.ContinueResponse,
              regenerate_response |-> p.Chat.RegenerateResponse,
              rate_response |-> p.Chat.RateResponse,
              share |-> p.Chat.Share,
              export |-> p.Chat.Export,
              stt |-> p.Chat.Stt,
              tts |-> p.Chat.Tts,
              call |-> p.Chat.Call,
              multiple_models |-> p.Chat.MultipleModels,
              temporary_enforced |-> p.Chat.TemporaryEnforced],
    sharing |-> [public_models |-> p.Sharing.PublicModels,
                 public_knowledge |-> p.Sharing.PublicKnowledge,
                 public_prompts |-> p.Sharing.PublicPrompts,
                 public_tools |-> p.Sharing.PublicTools,
                 public_notes |-> p.Sharing.PublicNotes],
    features |-> [direct_tool_servers |-> p.Features.DirectToolServers,
                  web_search |-> p.Features.WebSearch,
                  image_generation |-> p.Features.ImageGeneration,
                  code_interpreter |-> p.Features.CodeInterpreter,
                  notes |-> p.Features.Notes] ]

\* ReadPermissionsObj, had it crossed two flags of the workspace sub-group.
ReadPermissionsObjCrossed(p) ==
  [ DataPermissionsObj(p) EXCEPT !.workspace.prompts = p.Workspace.Tools,
                                 !.workspace.tools = p.Workspace.Prompts ]

\* Read: the four attribute maps and the permissions object built from them.
ReadPermissionsObj(p) ==
  [ workspace |-> [models |-> p.Workspace.Models,
                   knowledge |-> p.Workspace.Knowledge,
                   prompts |-> p.Workspace.Prompts,
                   tools |-> p.Workspace.Tools],
    chat |-> [file_upload |-> p.Chat.FileUpload,
              delete |-> p.Chat.Delete,
              edit |-> p.Chat.Edit,
              temporary |-> p.Chat.Temporary,
              controls |-> p.Chat.Controls,
              valves |-> p.Chat.Valves,
              system_prompt |-> p.Chat.SystemPrompt,
              params |-> p.Chat.Params,
              delete_message |-> p.Chat.DeleteMessage,
              continue_response |-> p.Chat.ContinueResponse,
              regenerate_response |-> p.Chat.RegenerateResponse,
              rate_response |-> p.Chat.RateResponse,
              share |-> p.Chat.Share,
              export |-> p.Chat.Export,
              stt |-> p.Chat.Stt,
              tts |-> p.Chat.Tts,
              call |-> p.Chat.Call,
              multiple_models |-> p.Chat.MultipleModels,
              temporary_enforced |-> p.Chat.TemporaryEnforced],
    sharing |-> [public_models |-> p.Sharing.PublicModels,
                 public_knowledge |-> p.Sharing.PublicKnowledge,
                 public_prompts |-> p.Sharing.PublicPrompts,
                 public_tools |-> p.Sharing.PublicTools,
                 public_notes |-> p.Sharing.PublicNotes],
    features |-> [direct_tool_servers |-> p.Features.DirectToolServers,
                  web_search |-> p.Features.WebSearch,
                  image_generation |-> p.Features.ImageGeneration,
                  code_interpreter |-> p.Features.CodeInterpreter,
                  notes |-> p.Features.Notes] ]

\* A groups.GroupPermissions value: the flags of S are true, the others false.
WirePermissions(S) ==
  [ Workspace |-> [Models |-> (<<"Workspace", "Models">> \in S),
                   Knowledge |-> (<<"Workspace", "Knowledge">> \in S),
                   Prompts |-> (<<"Workspace", "Prompts">> \in S),
                   Tools |-> (<<"Workspace", "Tools">> \in S)],
    Chat |-> [FileUpload |-> (<<"Chat", "FileUpload">> \in S),
              Delete |-> (<<"Chat", "Delete">> \in S),
              Edit |-> (<<"Chat", "Edit">> \in S),
              Temporary |-> (<<"Chat", "Temporary">> \in S),
              Controls |-> (<<"Chat", "Controls">> \in S),
              Valves |-> (<<"Chat", "Valves">> \in S),
              SystemPrompt |-> (<<"Chat", "SystemPrompt">> \in S),
              Params |-> (<<"Chat", "Params">> \in S),
              DeleteMessage |-> (<<"Chat", "DeleteMessage">> \in S),
              ContinueResponse |-> (<<"Chat", "ContinueResponse">> \in S),
              RegenerateResponse |-> (<<"Chat", "RegenerateResponse">> \in S),
              RateResponse |-> (<<"Chat", "RateResponse">> \in S),
              Share |-> (<<"Chat", "Share">> \in S),
              Export |-> (<<"Chat", "Export">> \in S),
              Stt |-> (<<"Chat", "Stt">> \in S),
              Tts |-> (<<"Chat", "Tts">> \in S),
              Call |-> (<<"Chat", "Call">> \in S),
              MultipleModels |-> (<<"Chat", "MultipleModels">> \in S),
              TemporaryEnforced |-> (<<"Chat", "TemporaryEnforced">> \in S)],
    Sharing |-> [PublicModels |-> (<<"Sharing", "PublicModels">> \in S),
                 PublicKnowledge |-> (<<"Sharing", "PublicKnowledge">> \in S),
                 PublicPrompts |-> (<<"Sharing", "PublicPrompts">> \in S),
                 PublicTools |-> (<<"Sharing", "PublicTools">> \in S),
                 PublicNotes |-> (<<"Sharing", "PublicNotes">> \in S)],
    Features |-> [DirectToolServers |-> (<<"Features", "DirectToolServers">> \in S),
                  WebSearch |-> (<<"Features", "WebSearch">> \in S),
                  ImageGeneration |-> (<<"Features", "ImageGeneration">> \in S),
                  CodeInterpreter |-> (<<"Features", "CodeInterpreter">> \in S),
                  Notes |-> (<<"Features", "Notes">> \in S)] ]

\* The 33 flags of groups.GroupPermissions, as <<sub-group, field>>.
WireFlags ==
  { <<"Workspace", "Models">>, <<"Workspace", "Knowledge">>, <<"Workspace", "Prompts">>, <<"Workspace", "Tools">>,
    <<"Chat", "FileUpload">>, <<"Chat", "Delete">>, <<"Chat", "Edit">>, <<"Chat", "Temporary">>, <<"Chat", "Controls">>, <<"Chat", "Valves">>, <<"Chat", "SystemPrompt">>, <<"Chat", "Params">>, <<"Chat", "DeleteMessage">>, <<"Chat", "ContinueResponse">>, <<"Chat", "RegenerateResponse">>, <<"Chat", "RateResponse">>, <<"Chat", "Share">>, <<"Chat", "Export">>, <<"Chat", "Stt">>, <<"Chat", "Tts">>, <<"Chat", "Call">>, <<"Chat", "MultipleModels">>, <<"Chat", "TemporaryEnforced">>,
    <<"Sharing", "PublicModels">>, <<"Sharing", "PublicKnowledge">>, <<"Sharing", "PublicPrompts">>, <<"Sharing", "PublicTools">>, <<"Sharing", "PublicNotes">>,
    <<"Features", "DirectToolServers">>, <<"Features", "WebSearch">>, <<"Features", "ImageGeneration">>, <<"Features", "CodeInterpreter">>, <<"Features", "Notes">> }

\* types.go: each flag of groups.GroupPermissions with its JSON name, which is
\* the name of the schema attribute it stands for.
JsonTags ==
  {
    <<<<"Workspace", "Models">>, <<"workspace", "models">>>>,
    <<<<"Workspace", "Knowledge">>, <<"workspace", "knowledge">>>>,
    <<<<"Workspace", "Prompts">>, <<"workspace", "prompts">>>>,
    <<<<"Workspace", "Tools">>, <<"workspace", "tools">>>>,
    <<<<"Chat", "FileUpload">>, <<"chat", "file_upload">>>>,
    <<<<"Chat", "Delete">>, <<"chat", "delete">>>>,
    <<<<"Chat", "Edit">>, <<"chat", "edit">>>>,
    <<<<"Chat", "Temporary">>, <<"chat", "temporary">>>>,
    <<<<"Chat", "Controls">>, <<"chat", "controls">>>>,
    <<<<"Chat", "Valves">>, <<"chat", "valves">>>>,
    <<<<"Chat", "SystemPrompt">>, <<"chat", "system_prompt">>>>,
    <<<<"Chat", "Params">>, <<"chat", "params">>>>,
    <<<<"Chat", "DeleteMessage">>, <<"chat", "delete_message">>>>,
    <<<<"Chat", "ContinueResponse">>, <<"chat", "continue_response">>>>,
    <<<<"Chat", "RegenerateResponse">>, <<"chat", "regenerate_response">>>>,
    <<<<"Chat", "RateResponse">>, <<"chat", "rate_response">>>>,
    <<<<"Chat", "Share">>, <<"chat", "share">>>>,
    <<<<"Chat", "Export">>, <<"chat", "export">>>>,
    <<<<"Chat", "Stt">>, <<"chat", "stt">>>>,
    <<<<"Chat", "Tts">>, <<"chat", "tts">>>>,
    <<<<"Chat", "Call">>, <<"chat", "call">>>>,
    <<<<"Chat", "MultipleModels">>, <<"chat", "multiple_models">>>>,
    <<<<"Chat", "TemporaryEnforced">>, <<"chat", "temporary_enforced">>>>,
    <<<<"Sharing", "PublicModels">>, <<"sharing", "public_models">>>>,
    <<<<"Sharing", "PublicKnowledge">>, <<"sharing", "public_knowledge">>>>,
    <<<<"Sharing", "PublicPrompts">>, <<"sharing", "public_prompts">>>>,
    <<<<"Sharing", "PublicTools">>, <<"sharing", "public_tools">>>>,
    <<<<"Sharing", "PublicNotes">>, <<"sharing", "public_notes">>>>,
    <<<<"Features", "DirectToolServers">>, <<"features", "direct_tool_servers">>>>,
    <<<<"Features", "WebSearch">>, <<"features", "web_search">>>>,
    <<<<"Features", "ImageGeneration">>, <<"features", "image_generation">>>>,
    <<<<"Features", "CodeInterpreter">>, <<"features", "code_interpreter">>>>,
    <<<<"Features", "Notes">>, <<"features", "notes">>>> }

\* A permissions object of the resource schema: the attributes of S are true.
SchemaPermissions(S) ==
  [ workspace |-> [models |-> (<<"workspace", "models">> \in S),
                   knowledge |-> (<<"workspace", "knowledge">> \in S),
                   prompts |-> (<<"workspace", "prompts">> \in S),
                   tools |-> (<<"workspace", "tools">> \in S)],
    chat |-> [file_upload |-> (<<"chat", "file_upload">> \in S),
              delete |-> (<<"chat", "delete">> \in S),
              edit |-> (<<"chat", "edit">> \in S),
              temporary |-> (<<"chat", "temporary">> \in S),
              controls |-> (<<"chat", "controls">> \in S),
              valves |-> (<<"chat", "valves">> \in S),
              system_prompt |-> (<<"chat", "system_prompt">> \in S),
              params |-> (<<"chat", "params">> \in S),
              delete_message |-> (<<"chat", "delete_message">> \in S),
              continue_response |-> (<<"chat", "continue_response">> \in S),
              regenerate_response |-> (<<"chat", "regenerate_response">> \in S),
              rate_response |-> (<<"chat", "rate_response">> \in S),
              share |-> (<<"chat", "share">> \in S),
              export |-> (<<"chat", "export">> \in S),
              stt |-> (<<"chat", "stt">> \in S),
              tts |-> (<<"chat", "tts">> \in S),
              call |-> (<<"chat", "call">> \in S),
              multiple_models |-> (<<"chat", "multiple_models">> \in S),
              temporary_enforced |-> (<<"chat", "temporary_enforced">> \in S)],
    sharing |-> [public_models |-> (<<"sharing", "public_models">> \in S),
                 public_knowledge |-> (<<"sharing", "public_knowledge">> \in S),
                 public_prompts |-> (<<"sharing", "public_prompts">> \in S),
                 public_tools |-> (<<"sharing", "public_tools">> \in S),
                 public_notes |-> (<<"sharing", "public_notes">> \in S)],
    features |-> [direct_tool_servers |-> (<<"features", "direct_tool_servers">> \in S),
                  web_search |-> (<<"features", "web_search">> \in S),
                  image_generation |-> (<<"features", "image_generation">> \in S),
                  code_interpreter |-> (<<"features", "code_interpreter">> \in S),
                  notes |-> (<<"features", "notes">> \in S)] ]

\* The 33 boolean attributes of the schema's permissions object.
SchemaFlags ==
  { <<"workspace", "models">>, <<"workspace", "knowledge">>, <<"workspace", "prompts">>, <<"workspace", "tools">>,
    <<"chat", "file_upload">>, <<"chat", "delete">>, <<"chat", "edit">>, <<"chat", "temporary">>, <<"chat", "controls">>, <<"chat", "valves">>, <<"chat", "system_prompt">>, <<"chat", "params">>, <<"chat", "delete_message">>, <<"chat", "continue_response">>, <<"chat", "regenerate_response">>, <<"chat", "rate_response">>, <<"chat", "share">>, <<"chat", "export">>, <<"chat", "stt">>, <<"chat", "tts">>, <<"chat", "call">>, <<"chat", "multiple_models">>, <<"chat", "temporary_enforced">>,
    <<"sharing", "public_models">>, <<"sharing", "public_knowledge">>, <<"sharing", "public_prompts">>, <<"sharing", "public_tools">>, <<"sharing", "public_notes">>,
    <<"features", "direct_tool_servers">>, <<"features", "web_search">>, <<"features", "image_generation">>, <<"features", "code_interpreter">>, <<"features", "notes">> }
\* CreatePermissions, had it sent a struct of false flags for a null object.
CreatePermissionsNeverNil(obj) ==
  IF obj.null THEN PermissionsPtr(WirePermissions({}))
  ELSE PermissionsPtr(CreateGroupPermissions(CreatePermissionsAs(obj.attrs)))

\* Create, lines 199-293: nil for a null object, else the mapped struct.
CreatePermissions(obj) ==
  IF obj.null THEN NilPermissions
  ELSE PermissionsPtr(CreateGroupPermissions(CreatePermissionsAs(obj.attrs)))

\* Update, lines 506-599: nil for a null object, else the mapped struct.
UpdatePermissions(obj) ==
  IF obj.null THEN NilPermissions
  ELSE PermissionsPtr(UpdateGroupPermissions(UpdatePermissionsAs(obj.attrs)))

\* Read, lines 340-479: state.Permissions is assigned only under
\* group.Permissions != nil; otherwise it keeps the value read from the
\* prior state.
ReadPermissions(prior, ptr) ==
  IF ptr.nil THEN prior ELSE ObjectValue(ReadPermissionsObj(ptr.v))

\* GroupDataSource.Read, lines 198-338: data.Permissions is assigned only
\* under group.Permissions != nil; otherwise it keeps the config's value.
DataPermissions(prior, ptr) ==
  IF ptr.nil THEN prior ELSE ObjectValue(DataPermissionsObj(ptr.v))

----------------------------------------------------------------------------
\* The JSON of a group's permissions, as the response body carries it.

JsonNull == [given |-> TRUE, null |-> TRUE]

\* A permissions object: the four sub-group keys, each an object holding the
\* flags of the schema but for those of M; the flags of S are true.
JsonPermissions(S, M) ==
  [ given |-> TRUE, null |-> FALSE,
    obj |-> [ g \in {f[1] : f \in SchemaFlags} |->
                [ k \in {f[2] : f \in {x \in SchemaFlags \ M : x[1] = g}} |->
                    (<<g, k>> \in S) ] ] ]

\* The flags of the schema the object lacks.
JsonMissing(j) ==
  IF j.null THEN {} ELSE {f \in SchemaFlags : f[2] \notin DOMAIN j.obj[f[1]]}

\* Decoding into *GroupPermissions by the json tags of types.go: null gives a
\* nil pointer; a bool field whose key the object lacks keeps its zero value.
JsonDecodePermissions(j) ==
  IF j.null THEN NilPermissions
  ELSE PermissionsPtr(
         [ G \in {t[1][1] : t \in JsonTags} |->
             [ F \in {t[1][2] : t \in {x \in JsonTags : x[1][1] = G}} |->
                 LET tag == (CHOOSE t \in JsonTags : t[1] = <<G, F>>)[2]
                 IN  IF tag[2] \in DOMAIN j.obj[tag[1]] THEN j.obj[tag[1]][tag[2]]
                     ELSE FALSE ] ])

----------------------------------------------------------------------------
\* Input values.

\* Flag sets over F: none, all, each flag alone, all but each flag.
FlagSets(F) == {{}, F} \cup {{f} : f \in F} \cup {F \ {f} : f \in F}

\* Non-null permissions objects of a plan or a state record.
PermissionsObjSet == {ObjectValue(SchemaPermissions(S)) : S \in FlagSets(SchemaFlags)}

\* Non-nil permissions of a remote group.
PermissionsPtrSet == {PermissionsPtr(WirePermissions(S)) : S \in FlagSets(WireFlags)}

\* A few of them, for the runs that vary everything else.
FewFlagSets(F) == {{}, {f \in F : f[2] \in {"tools", "Tools", "share", "Share"}}}

MixedPermissionsObj ==
  ObjectValue(SchemaPermissions({f \in SchemaFlags : f[2] \in {"tools", "share"}}))

FewPermissionsObj == {ObjectValue(SchemaPermissions(S)) : S \in FewFlagSets(SchemaFlags)}

FewPermissionsPtr == {PermissionsPtr(WirePermissions(S)) : S \in FewFlagSets(WireFlags)}

NameSet == {"eng", "ops"}

\* Sequences over S of length at most n.
SeqsUpTo(S, n) == UNION {[1..k -> S] : k \in 0..n}

\* Member lists of a remote group: nil, or any list of user ids.
SliceSet == {NilSlice} \cup {Slice(s) : s \in SeqsUpTo(UserIdSet, MaxMembers)}

\* Member lists of a plan: null, a known list, and a list holding a null.
PlanListSet ==
  { ListNull,
    ListValue(<<ElemValue(<<98>>), ElemValue(<<97>>)>>),
    ListValue(<<ElemValue(<<97>>), ElemNull>>) }

\* Plans of the resource: name is required, the rest optional; id is computed.
PlanSet ==
  { [name |-> StringValue(n), description |-> d, user_ids |-> l, permissions |-> p] :
      n \in NameSet, d \in {StringNull, StringValue("team")},
      l \in PlanListSet, p \in {ObjectNull, MixedPermissionsObj} }

----------------------------------------------------------------------------
\* The remote groups API behind groups.Client.

NoState == [present |-> FALSE]

\* Ids the server assigns, in order of creation.
GroupIds == <<"g1", "g2", "g3", "g4">>

ErrNotFound == "not found"

ErrTransport == "transport error"

\* groups.Group; the fields no handler reads (UserID, Data, Meta) are left out.
Group(id, name, description, permissions, userIDs, createdAt, updatedAt) ==
  [ ID |-> id, Name |-> name, Description |-> description,
    Permissions |-> permissions, UserIDs |-> userIDs,
    CreatedAt |-> createdAt, UpdatedAt |-> updatedAt ]

\* Position of the group with this id in the list, 0 when there is none.
IndexOf(groups, id) ==
  IF \E i \in 1..Len(groups) : groups[i].ID = id
  THEN CHOOSE i \in 1..Len(groups) : groups[i].ID = id
  ELSE 0

\* create(partialGroup): a new group with a server-assigned id, holding the
\* name and description sent and neither members nor permissions.
RemoteCreate(rem, g) ==
  [ groups |-> Append(rem.groups,
                 Group(GroupIds[rem.created + 1], g.Name, g.Description,
                       NilPermissions, Slice(<<>>), 1, 1)),
    created |-> rem.created + 1 ]

\* update(id, fullGroup): the stored group's payload is replaced as a whole;
\* its id and creation time stay.
RemoteUpdate(rem, id, g) ==
  LET i == IndexOf(rem.groups, id) IN
  [ rem EXCEPT !.groups[i] =
      Group(@.ID, g.Name, g.Description, g.Permissions, g.UserIDs, @.CreatedAt, 2) ]

\* delete(id): the group leaves the list.
RemoteDelete(rem, id) ==
  LET i == IndexOf(rem.groups, id) IN
  [ rem EXCEPT !.groups = SubSeq(@, 1, i - 1) \o SubSeq(@, i + 1, Len(@)) ]

\* The error of a call on id: NotFound when no group has the id, else a
\* transport failure when one is injected, else none ("").
CallErr(rem, id, fail) ==
  IF fail THEN ErrTransport
  ELSE IF IndexOf(rem.groups, id) = 0 THEN ErrNotFound
  ELSE ""

----------------------------------------------------------------------------
\* GroupResource.

\* GroupResourceModel.
GroupResourceModel(id, name, description, user_ids, permissions) ==
  [ present |-> TRUE, id |-> id, name |-> name, description |-> description,
    user_ids |-> user_ids, permissions |-> permissions ]

\* The outcome of one invocation: the calls issued, the diagnostics, the
\* remote store afterwards, and the record written by State.Set (NoState when
\* State.Set was not reached).
Outcome(c, d, rem, written) ==
  [calls |-> c, diags |-> d, remote |-> rem, written |-> written]

Diag(summary, detail) == [summary |-> summary, detail |-> detail]

\* CreateGroupArg, had it carried the member list as well.
CreateGroupArgWithMembers(plan) ==
  Group("", ValueString(plan.name), ValueString(plan.description),
        NilPermissions, ElementsAs(plan.user_ids), 0, 0)

\* Create, lines 170-173: the group sent to client.Create.
CreateGroupArg(plan) ==
  Group("", ValueString(plan.name), ValueString(plan.description),
        NilPermissions, NilSlice, 0, 0)

\* Create, lines 185-293: the group sent to client.Update.
CreateUpdateGroup(plan) ==
  Group("", ValueString(plan.name), ValueString(plan.description),
        CreatePermissions(plan.permissions), ElementsAs(plan.user_ids), 0, 0)

\* Create, lines 177-180.
CreateErrorDiag(err) ==
  Diag("Error creating group", <<"Could not create group: ", err>>)

\* CreateUpdateErrorDiag, had it reused the create stage's diagnostic.
CreateUpdateErrorDiagAsCreate(id, err) ==
  Diag("Error creating group", <<"Could not create group: ", err>>)

\* Create, lines 298-301.
CreateUpdateErrorDiag(id, err) ==
  Diag("Error updating group", <<"Could not update group with ID ", id, ": ", err>>)

\* The diagnostic of a failed ElementsAs (lines 192-196).
ElementsAsDiag ==
  Diag("Value Conversion Error", <<"unhandled null values">>)

\* CreateUpdateFailed, had it deleted the group it had just created.
CreateUpdateFailedRollback(rem, issued, id, err) ==
  Outcome(Append(issued, [method |-> "Delete", id |-> id, err |-> "", ret |-> ""]),
          <<CreateUpdateErrorDiag(id, err)>>, RemoteDelete(rem, id), NoState)

\* CreateUpdateFailed, had it recorded the created group before returning.
CreateUpdateFailedRecorded(rem, issued, id, err) ==
  Outcome(issued, <<CreateUpdateErrorDiag(id, err)>>, rem,
          GroupResourceModel(StringValue(id), StringNull, StringNull, ListNull, ObjectNull))

\* Create, lines 297-303: the update call failed; report it and return.
CreateUpdateFailed(rem, issued, id, err) ==
  Outcome(issued, <<CreateUpdateErrorDiag(id, err)>>, rem, NoState)

\* Create, lines 161-309.
CreateOutcome(plan, rem, failCreate, failUpdate) ==
  LET rem1 == RemoteCreate(rem, CreateGroupArg(plan))
      createdGroup == rem1.groups[Len(rem1.groups)]
      createCall ==
        [ method |-> "Create", id |-> "", group |-> CreateGroupArg(plan),
          err |-> IF failCreate THEN ErrTransport ELSE "",
          ret |-> IF failCreate THEN "" ELSE createdGroup.ID ]
      updateErr == CallErr(rem1, createdGroup.ID, failUpdate)
      rem2 == RemoteUpdate(rem1, createdGroup.ID, CreateUpdateGroup(plan))
      updatedGroup == rem2.groups[IndexOf(rem2.groups, createdGroup.ID)]
      updateCall ==
        [ method |-> "Update", id |-> createdGroup.ID,
          group |-> CreateUpdateGroup(plan), err |-> updateErr,
          ret |-> IF updateErr # "" THEN "" ELSE updatedGroup.ID ]
  IN  IF failCreate
        THEN Outcome(<<createCall>>, <<CreateErrorDiag(ErrTransport)>>, rem, NoState)
      ELSE IF ~ElementsAsOk(plan.user_ids)
        THEN Outcome(<<createCall>>, <<ElementsAsDiag>>, rem1, NoState)
      ELSE IF updateErr # ""
        THEN CreateUpdateFailed(rem1, <<createCall, updateCall>>, createdGroup.ID, updateErr)
      ELSE Outcome(<<createCall, updateCall>>, <<>>, rem2,
                   GroupResourceModel(StringValue(updatedGroup.ID), plan.name,
                     plan.description, plan.user_ids, plan.permissions))

\* Read, lines 321-324.
ReadErrorDiag(id, err) ==
  Diag("Error reading group", <<"Could not read group ID ", id, ": ", err>>)

\* ReadUserIDs, had it left out sort.Strings.
ReadUserIDsUnsorted(group) == ListValueFrom(group.UserIDs)

\* Read, lines 331-338: the member list, sorted, as a list value.
ReadUserIDs(group) == ListValueFrom(SortStrings(group.UserIDs))

\* Read, lines 328-479: the state record after a successful get.
ReadModel(prior, group) ==
  GroupResourceModel(prior.id, StringValue(group.Name),
    StringValue(group.Description), ReadUserIDs(group),
    ReadPermissions(prior.permissions, group.Permissions))

\* ReadOutcome, had it issued the get call again after a failure.
ReadOutcomeRetry(prior, rem, fail) ==
  LET id == ValueString(prior.id)
      err == CallErr(rem, id, fail)
      getCall == [method |-> "Get", id |-> id, err |-> err]
  IN  IF err # ""
        THEN Outcome(<<getCall, getCall>>, <<ReadErrorDiag(id, err)>>, rem, NoState)
      ELSE Outcome(<<getCall>>, <<>>, rem,
                   ReadModel(prior, rem.groups[IndexOf(rem.groups, id)]))

\* Read, lines 311-483.
ReadOutcome(prior, rem, fail) ==
  LET id == ValueString(prior.id)
      err == CallErr(rem, id, fail)
      getCall == [method |-> "Get", id |-> id, err |-> err]
  IN  IF err # ""
        THEN Outcome(<<getCall>>, <<ReadErrorDiag(id, err)>>, rem, NoState)
      ELSE Outcome(<<getCall>>, <<>>, rem,
                   ReadModel(prior, rem.groups[IndexOf(rem.groups, id)]))

\* UpdateGroup, had it sent the name and description alone.
UpdateGroupPartial(plan) ==
  Group("", ValueString(plan.name), ValueString(plan.description),
        NilPermissions, NilSlice, 0, 0)

\* Update, lines 493-599: the group sent to client.Update.
UpdateGroup(plan) ==
  Group("", ValueString(plan.name), ValueString(plan.description),
        UpdatePermissions(plan.permissions), ElementsAs(plan.user_ids), 0, 0)

\* Update, lines 603-606.
UpdateErrorDiag(id, err) ==
  Diag("Error updating group", <<"Could not update group ID ", id, ": ", err>>)

\* UpdateOutcome, had it set the state from the plan before looking at the
\* error of the update call.
UpdateOutcomeSetsOnError(plan, rem, fail) ==
  LET id == ValueString(plan.id)
      err == CallErr(rem, id, fail)
      rem1 == RemoteUpdate(rem, id, UpdateGroup(plan))
      updatedGroup == rem1.groups[IndexOf(rem1.groups, id)]
      updateCall ==
        [ method |-> "Update", id |-> id, group |-> UpdateGroup(plan), err |-> err,
          ret |-> IF err # "" THEN "" ELSE updatedGroup.ID ]
  IN  IF ~ElementsAsOk(plan.user_ids)
        THEN Outcome(<<>>, <<ElementsAsDiag>>, rem, NoState)
      ELSE IF err # ""
        THEN Outcome(<<updateCall>>, <<UpdateErrorDiag(id, err)>>, rem, plan)
      ELSE Outcome(<<updateCall>>, <<>>, rem1,
                   [plan EXCEPT !.id = StringValue(updatedGroup.ID)])

\* Update, lines 485-614. plan.ID is the prior state's id (UseStateForUnknown).
UpdateOutcome(plan, rem, fail) ==
  LET id == ValueString(plan.id)
      err == CallErr(rem, id, fail)
      rem1 == RemoteUpdate(rem, id, UpdateGroup(plan))
      updatedGroup == rem1.groups[IndexOf(rem1.groups, id)]
      updateCall ==
        [ method |-> "Update", id |-> id, group |-> UpdateGroup(plan), err |-> err,
          ret |-> IF err # "" THEN "" ELSE updatedGroup.ID ]
  IN  IF ~ElementsAsOk(plan.user_ids)
        THEN Outcome(<<>>, <<ElementsAsDiag>>, rem, NoState)
      ELSE IF err # ""
        THEN Outcome(<<updateCall>>, <<UpdateErrorDiag(id, err)>>, rem, NoState)
      ELSE Outcome(<<updateCall>>, <<>>, rem1,
                   [plan EXCEPT !.id = StringValue(updatedGroup.ID)])

\* Delete, lines 626-629.
DeleteErrorDiag(id, err) ==
  Diag("Error deleting group", <<"Could not delete group ID ", id, ": ", err>>)

\* DeleteOutcome, had it taken NotFound for a group already gone as success.
DeleteOutcomeNotFoundOk(prior, rem, fail) ==
  LET id == ValueString(prior.id)
      err == CallErr(rem, id, fail)
      deleteCall == [method |-> "Delete", id |-> id, err |-> err]
  IN  IF err = ErrNotFound
        THEN Outcome(<<deleteCall>>, <<>>, rem, NoState)
      ELSE IF err # ""
        THEN Outcome(<<deleteCall>>, <<DeleteErrorDiag(id, err)>>, rem, NoState)
      ELSE Outcome(<<deleteCall>>, <<>>, RemoteDelete(rem, id), NoState)

\* Delete, lines 616-632.
DeleteOutcome(prior, rem, fail) ==
  LET id == ValueString(prior.id)
      err == CallErr(rem, id, fail)
      deleteCall == [method |-> "Delete", id |-> id, err |-> err]
  IN  IF err # ""
        THEN Outcome(<<deleteCall>>, <<DeleteErrorDiag(id, err)>>, rem, NoState)
      ELSE Outcome(<<deleteCall>>, <<>>, RemoteDelete(rem, id), NoState)

\* ImportState, lines 634-636: ImportStatePassthroughID sets the id attribute
\* of an otherwise null record; no remote call.
ImportModel(id) ==
  GroupResourceModel(StringValue(id), StringNull, StringNull, ListNull, ObjectNull)

\* ImportState, had it looked the id up before accepting it.
ImportOutcomeValidated(id, rem) ==
  LET err == CallErr(rem, id, FALSE)
      getCall == [method |-> "Get", id |-> id, err |-> err]
  IN  IF err # ""
        THEN Outcome(<<getCall>>,
               <<Diag("Error importing group", <<"Could not read group ID ", id, ": ", err>>)>>,
               rem, NoState)
      ELSE Outcome(<<getCall>>, <<>>, rem, ImportModel(id))

\* ImportState, lines 634-636: no call, no diagnostic, the record written.
ImportOutcome(id, rem) == Outcome(<<>>, <<>>, rem, ImportModel(id))

----------------------------------------------------------------------------
\* GroupDataSource.

Int64Null == [null |-> TRUE, value |-> 0]

Int64Value(n) == [null |-> FALSE, value |-> n]

\* GroupDataSourceModel.
GroupDataSourceModel(id, name, description, user_ids, permissions, created_at, updated_at) ==
  [ present |-> TRUE, id |-> id, name |-> name, description |-> description,
    user_ids |-> user_ids, permissions |-> permissions,
    created_at |-> created_at, updated_at |-> updated_at ]

\* The config of the data source: name is required, every other attribute is
\* computed and so null.
DataConfig(name) ==
  GroupDataSourceModel(StringNull, StringValue(name), StringNull, ListNull,
                       ObjectNull, Int64Null, Int64Null)

\* GroupDataSource.Read, lines 190-196: the member list as a list value.
DataUserIDs(group) == ListValueFrom(group.UserIDs)

\* GroupDataSource.Read, lines 185-338: the model filled from the matched group.
DataModel(config, group) ==
  GroupDataSourceModel(StringValue(group.ID), config.name,
    StringValue(group.Description), DataUserIDs(group),
    DataPermissions(config.permissions, group.Permissions),
    Int64Value(group.CreatedAt), Int64Value(group.UpdatedAt))

\* GroupDataSource.Read, lines 182-183: the groups whose name matches.
DataMatches(groups, name) == {i \in 1..Len(groups) : groups[i].Name = name}

\* DataFirstMatch, had the loop gone on after a match (no break).
DataLastMatch(groups, name) ==
  LET m == DataMatches(groups, name) IN CHOOSE i \in m : \A j \in m : j <= i

\* GroupDataSource.Read, lines 182-183 and 341-342: the loop runs in list
\* order and breaks at the first match.
DataFirstMatch(groups, name) ==
  LET m == DataMatches(groups, name) IN CHOOSE i \in m : \A j \in m : i <= j

\* GroupDataSource.Read, lines 164-355.
DataOutcome(config, rem, fail) ==
  LET name == ValueString(config.name)
      listCall == [method |-> "List", id |-> "", err |-> IF fail THEN ErrTransport ELSE ""]
      m == DataMatches(rem.groups, name)
      first == DataFirstMatch(rem.groups, name)
  IN  IF fail
        THEN Outcome(<<listCall>>,
               <<Diag("Client Error", <<"Unable to read groups, got error: ", ErrTransport>>)>>,
               rem, NoState)
      ELSE IF m = {}
        THEN Outcome(<<listCall>>,
               <<Diag("Group Not Found", <<"No group found with name: ", name>>)>>,
               rem, NoState)
      ELSE Outcome(<<listCall>>, <<>>, rem, DataModel(config, rem.groups[first]))

----------------------------------------------------------------------------
\* The invocations, as the host issues them: one at a time.

NoPlan == [present |-> FALSE]

\* Before the first invocation.
NoOp == [name |-> "none", plan |-> NoPlan, prior |-> NoState, set |-> FALSE]

ConvIdle == [side |-> "idle"]

\* No response body under consideration.
NoWire == [given |-> FALSE]

\* What an invocation leaves behind, given its outcome; set tells whether the
\* handler reached State.Set.
Invoke(name, plan, o) ==
  /\ op' = [name |-> name, plan |-> plan, prior |-> state, set |-> o.written # NoState]
  /\ calls' = o.calls
  /\ diags' = o.diags
  /\ remote' = o.remote

Create(plan, failCreate, failUpdate) ==
  /\ state = NoState
  /\ remote.created < MaxGroups
  /\ LET o == CreateOutcome(plan, remote, failCreate, failUpdate) IN
       /\ Invoke("Create", plan, o)
       /\ state' = IF o.written # NoState THEN o.written ELSE state
  /\ UNCHANGED <<data, conv, wire>>

\* The response's state starts as the prior state: a Read that does not
\* reach State.Set leaves the record as it was.
Read(fail) ==
  /\ state # NoState
  /\ LET o == ReadOutcome(state, remote, fail) IN
       /\ Invoke("Read", NoPlan, o)
       /\ state' = IF o.written # NoState THEN o.written ELSE state
  /\ UNCHANGED <<data, conv, wire>>

\* Update, had the plan not carried the id of the prior state (the id
\* attribute without UseStateForUnknown is unknown in the plan).
UpdateWithoutStateId(p, fail) ==
  /\ state # NoState
  /\ LET plan == GroupResourceModel(StringNull, p.name, p.description,
                                    p.user_ids, p.permissions)
         o == UpdateOutcome(plan, remote, fail) IN
       /\ Invoke("Update", plan, o)
       /\ state' = IF o.written # NoState THEN o.written ELSE state
  /\ UNCHANGED <<data, conv, wire>>

\* plan.ID is the id of the prior state (schema, lines 52-58).
Update(p, fail) ==
  /\ state # NoState
  /\ LET plan == GroupResourceModel(state.id, p.name, p.description,
                                    p.user_ids, p.permissions)
         o == UpdateOutcome(plan, remote, fail) IN
       /\ Invoke("Update", plan, o)
       /\ state' = IF o.written # NoState THEN o.written ELSE state
  /\ UNCHANGED <<data, conv, wire>>

\* On a Delete without error the framework removes the record from state.
Delete(fail) ==
  /\ state # NoState
  /\ LET o == DeleteOutcome(state, remote, fail) IN
       /\ Invoke("Delete", NoPlan, o)
       /\ state' = IF o.diags = <<>> THEN NoState ELSE state
  /\ UNCHANGED <<data, conv, wire>>

ImportState(id) ==
  /\ state = NoState
  /\ LET o == ImportOutcome(id, remote) IN
       /\ Invoke("ImportState", NoPlan, o)
       /\ state' = IF o.written # NoState THEN o.written ELSE state
  /\ UNCHANGED <<data, conv, wire>>

DataRead(name, fail) ==
  /\ LET config == DataConfig(name)
         o == DataOutcome(config, remote, fail) IN
       /\ op' = [name |-> "DataRead", plan |-> config, prior |-> NoState,
                 set |-> o.written # NoState]
       /\ calls' = o.calls
       /\ diags' = o.diags
       /\ data' = o.written
  /\ UNCHANGED <<remote, state, conv, wire>>

----------------------------------------------------------------------------
\* The life of one managed group, from an empty remote.

ImportIdSet == {"g1", "g2", "g9"}

Init ==
  /\ remote = [groups |-> <<>>, created |-> 0]
  /\ state = NoState
  /\ data = NoState
  /\ op = NoOp
  /\ calls = <<>>
  /\ diags = <<>>
  /\ conv = ConvIdle
  /\ wire = NoWire

Next ==
  \/ \E plan \in PlanSet, failCreate, failUpdate \in BOOLEAN :
       Create(plan, failCreate, failUpdate)
  \/ \E fail \in BOOLEAN : Read(fail)
  \/ \E p \in PlanSet, fail \in BOOLEAN : Update(p, fail)
  \/ \E fail \in BOOLEAN : Delete(fail)
  \/ \E id \in ImportIdSet : ImportState(id)

Spec == Init /\ [][Next]_vars
----------------------------------------------------------------------------
\* Read against any remote group and any stored record: other clients edit
\* the remote group between invocations, and the stored record is whatever
\* an earlier Create, Update, Read or ImportState left.

\* Remote groups of id g1.
ReadGroupSet ==
  { Group("g1", n, d, p, l, 1, 2) :
      n \in NameSet, d \in {"", "team"},
      p \in {NilPermissions} \cup FewPermissionsPtr, l \in SliceSet }

\* Stored records: as imported, or as written from a plan; of a group that
\* exists (g1) or that is gone (g9).
StoredSet ==
  { GroupResourceModel(StringValue(id), r[1], r[2], r[3], p) :
      id \in {"g1", "g9"},
      r \in { <<StringNull, StringNull, ListNull>>,
              <<StringValue("eng"), StringValue("team"),
                ListValue(<<ElemValue(<<98>>), ElemValue(<<97>>)>>)>> },
      p \in {ObjectNull, MixedPermissionsObj} }

InitRead ==
  /\ \E g \in ReadGroupSet : remote = [groups |-> <<g>>, created |-> 1]
  /\ state \in StoredSet
  /\ data = NoState
  /\ op = NoOp
  /\ calls = <<>>
  /\ diags = <<>>
  /\ conv = ConvIdle
  /\ wire = NoWire

NextRead == \E fail \in BOOLEAN : Read(fail)

SpecRead == InitRead /\ [][NextRead]_vars

----------------------------------------------------------------------------
\* The data source against any remote list.

\* Groups the remote list holds.
MaxListed == 2

DataSliceSet ==
  { NilSlice, Slice(<<>>), Slice(<<<<98>>, <<97>>>>), Slice(<<<<97>>, <<98>>>>) }

\* The content of a listed group; its id is set by its place in the list.
ListedSet ==
  { Group("", n, d, p, l, 1, 2) :
      n \in NameSet, d \in {"team"},
      p \in {NilPermissions} \cup FewPermissionsPtr, l \in DataSliceSet }

InitData ==
  /\ \E l \in SeqsUpTo(ListedSet, MaxListed) :
       remote = [ groups |-> [i \in 1..Len(l) |->
                               [l[i] EXCEPT !.ID = GroupIds[i], !.CreatedAt = i]],
                  created |-> Len(l) ]
  /\ state = NoState
  /\ data = NoState
  /\ op = NoOp
  /\ calls = <<>>
  /\ diags = <<>>
  /\ conv = ConvIdle
  /\ wire = NoWire

NextData == \E name \in NameSet \cup {"sales"}, fail \in BOOLEAN : DataRead(name, fail)

SpecData == InitData /\ [][NextData]_vars

----------------------------------------------------------------------------
\* The resource and the data source side by side: the host evaluates the
\* data source between the invocations of the resource.

\* The plans of this run: the bare one (no description, no permissions) and
\* the full one, each with every member list of PlanListSet.
OpsPlanSet ==
  { p \in PlanSet : /\ p.description.null = p.permissions.null
                    /\ (p.name.value = "eng") = p.description.null }

NextOps ==
  \/ \E plan \in OpsPlanSet, failCreate, failUpdate \in BOOLEAN :
       Create(plan, failCreate, failUpdate)
  \/ \E fail \in BOOLEAN : Read(fail)
  \/ \E p \in OpsPlanSet, fail \in BOOLEAN : Update(p, fail)
  \/ \E fail \in BOOLEAN : Delete(fail)
  \/ \E id \in ImportIdSet : ImportState(id)
  \/ NextData

SpecOps == Init /\ [][NextOps]_vars

----------------------------------------------------------------------------
\* Read and the data source against a group whose permissions arrived as any
\* JSON object, complete or lacking one flag.

WireJsonSet ==
  {JsonNull} \cup
  { JsonPermissions(S, M) :
      S \in FewFlagSets(SchemaFlags) \cup {SchemaFlags},
      M \in {{}} \cup {{f} : f \in SchemaFlags} }

InitWire ==
  /\ wire \in WireJsonSet
  /\ \E n \in NameSet :
       remote = [ groups |-> << Group("g1", n, "team", JsonDecodePermissions(wire),
                                     Slice(<< <<97>> >>), 1, 2) >>,
                  created |-> 1 ]
  /\ state \in { ImportModel("g1"),
                  GroupResourceModel(StringValue("g1"), StringValue("eng"),
                    StringValue("team"), ListValue(<<ElemValue(<<97>>)>>),
                    MixedPermissionsObj) }
  /\ data = NoState
  /\ op = NoOp
  /\ calls = <<>>
  /\ diags = <<>>
  /\ conv = ConvIdle

NextWire ==
  \/ \E fail \in BOOLEAN : Read(fail)
  \/ \E name \in NameSet, fail \in BOOLEAN : DataRead(name, fail)

SpecWire == InitWire /\ [][NextWire]_vars

----------------------------------------------------------------------------
\* The permission mapper taken alone: a permissions value is carried to the
\* other side by one handler's mapping and back by another's.

\* To the wire, as Create or Update maps a plan's object.
ToWire(by) ==
  /\ conv.side = "config"
  /\ Len(conv.path) < 2
  /\ conv' = [conv EXCEPT !.side = "wire", !.path = Append(@, by),
                !.cur = IF by = "Create" THEN CreatePermissions(conv.cur)
                        ELSE UpdatePermissions(conv.cur)]
  /\ UNCHANGED <<remote, state, data, op, calls, diags, wire>>

\* To the record, as Read or the data source maps a group's permissions onto
\* a record whose permissions are null.
ToConfig(by) ==
  /\ conv.side = "wire"
  /\ Len(conv.path) < 2
  /\ conv' = [conv EXCEPT !.side = "config", !.path = Append(@, by),
                !.cur = IF by = "Read" THEN ReadPermissions(ObjectNull, conv.cur)
                        ELSE DataPermissions(ObjectNull, conv.cur)]
  /\ UNCHANGED <<remote, state, data, op, calls, diags, wire>>

InitMap ==
  /\ remote = [groups |-> <<>>, created |-> 0]
  /\ state = NoState
  /\ data = NoState
  /\ op = NoOp
  /\ calls = <<>>
  /\ diags = <<>>
  /\ wire = NoWire
  /\ \/ \E P \in PermissionsObjSet :
          conv = [side |-> "config", from |-> "config", start |-> P, cur |-> P, path |-> <<>>]
     \/ \E W \in PermissionsPtrSet :
          conv = [side |-> "wire", from |-> "wire", start |-> W, cur |-> W, path |-> <<>>]

NextMap ==
  \/ \E by \in {"Create", "Update"} : ToWire(by)
  \/ \E by \in {"Read", "Data"} : ToConfig(by)

SpecMap == InitMap /\ [][NextMap]_vars
----------------------------------------------------------------------------
\* Properties.

\* The wire struct v holds, flag for flag, the values of the object's attrs.
SameFlags(attrs, v) ==
  \A t \in JsonTags : v[t[1][1]][t[1][2]] = attrs[t[2][1]][t[2][2]]

\* The slice holds the strings of the list, in the list's order.
SameMembers(list, slice) ==
  /\ Len(slice.elems) = Len(list.elems)
  /\ \A i \in 1..Len(list.elems) : slice.elems[i] = list.elems[i].value

\* The group carries the plan in full: name, description, members, permissions.
FullPayload(plan, g) ==
  /\ g.Name = plan.name.value
  /\ g.Description = (IF plan.description.null THEN "" ELSE plan.description.value)
  /\ SameMembers(plan.user_ids, g.UserIDs)
  /\ plan.permissions.null => g.Permissions.nil
  /\ ~plan.permissions.null =>
       ~g.Permissions.nil /\ SameFlags(plan.permissions.attrs, g.Permissions.v)

\* C1: a Create invocation issues the create call first, with only the name
\* and the description; the update call comes second, only after the create
\* call succeeded, targets the id that call returned and carries the plan's
\* name, description, member list and mapped permissions.
C1_CreateThenUpdate ==
  op.name = "Create" =>
    /\ Len(calls) \in {1, 2}
    /\ calls[1].method = "Create"
    /\ calls[1].group.Name = op.plan.name.value
    /\ calls[1].group.Description =
         (IF op.plan.description.null THEN "" ELSE op.plan.description.value)
    /\ calls[1].group.Permissions.nil
    /\ calls[1].group.UserIDs = NilSlice
    /\ calls[1].group.ID = ""
    /\ calls[1].err # "" => Len(calls) = 1
    /\ Len(calls) = 2 =>
         /\ calls[1].err = ""
         /\ calls[2].method = "Update"
         /\ calls[2].id = calls[1].ret
         /\ calls[2].id # ""
         /\ FullPayload(op.plan, calls[2].group)

C1_Witness ==
  /\ op.name = "Create"
  /\ Len(calls) = 2
  /\ calls[2].err = ""
  /\ ~op.plan.permissions.null
  /\ ~op.plan.user_ids.null

\* C2: when the create call succeeded and the update call failed, Create
\* reports one error, whose summary is not the create stage's and whose detail
\* holds the id the create call returned.
C2_UpdateStageError ==
  (op.name = "Create" /\ Len(calls) = 2 /\ calls[2].err # "") =>
    /\ Len(diags) = 1
    /\ diags[1].summary # CreateErrorDiag(calls[2].err).summary
    /\ calls[1].ret # ""
    /\ \E i \in 1..Len(diags[1].detail) : diags[1].detail[i] = calls[1].ret

C2_Witness ==
  /\ op.name = "Create"
  /\ Len(calls) = 2
  /\ calls[1].err = ""
  /\ calls[2].err # ""

\* C3: when the update call of a Create fails, no further call is issued (no
\* delete), and the remote group of the returned id still exists with the
\* name and description of the create call, without members or permissions.
C3_NoRollback ==
  (op.name = "Create" /\ Len(calls) >= 2 /\ calls[2].err # "") =>
    /\ Len(calls) = 2
    /\ \A i \in 1..Len(calls) : calls[i].method # "Delete"
    /\ \E i \in 1..Len(remote.groups) :
         /\ remote.groups[i].ID = calls[1].ret
         /\ remote.groups[i].Name = calls[1].group.Name
         /\ remote.groups[i].Description = calls[1].group.Description
         /\ remote.groups[i].Permissions.nil
         /\ remote.groups[i].UserIDs.elems = <<>>

C3_Witness ==
  /\ op.name = "Create"
  /\ Len(calls) = 2
  /\ calls[2].err # ""
  /\ ~op.plan.permissions.null
  /\ ~op.plan.user_ids.null
  /\ state = NoState

\* C4: a non-null permissions object carried to the wire as Create or Update
\* does, and back as Read does, is the object again; a wire permissions
\* struct carried to the record and back is the struct again; and each single
\* conversion keeps every one of the 33 flags under its own name.
C4_RoundTrip ==
  /\ (conv.from = "config" /\ Len(conv.path) = 1) =>
       ~conv.cur.nil /\ SameFlags(conv.start.attrs, conv.cur.v)
  /\ (conv.from = "wire" /\ Len(conv.path) = 1) =>
       ~conv.cur.null /\ SameFlags(conv.cur.attrs, conv.start.v)
  /\ Len(conv.path) = 2 => conv.cur = conv.start

C4_Witness ==
  /\ conv.from = "config"
  /\ conv.path = <<"Update", "Read">>
  /\ conv.start.attrs.workspace.tools
  /\ ~conv.start.attrs.workspace.prompts
\* The remote group a Read or a data-source read was given.
Fetched == remote.groups[IndexOf(remote.groups, calls[1].id)]

\* C5: when the group returned to Read has no permissions, the record Read
\* writes has null permissions, whatever the prior record held.
C5_ReadNullPermissions ==
  (op.name = "Read" /\ diags = <<>> /\ Fetched.Permissions.nil) =>
    state.permissions = ObjectNull

\* The sub-groups of a permissions struct and the fields of each.
WireShape(v) ==
  /\ DOMAIN v = {f[1] : f \in WireFlags}
  /\ \A g \in DOMAIN v : DOMAIN v[g] = {f[2] : f \in {x \in WireFlags : x[1] = g}}

\* C6: the update call of Create and of Update carries nil permissions when
\* the plan's permissions are null (never a struct of false flags), and a
\* struct with all four sub-groups and their flags when they are not.
C6_NullPermissionsStayNil ==
  op.name \in {"Create", "Update"} =>
    \A i \in 1..Len(calls) :
      calls[i].method = "Update" =>
        /\ op.plan.permissions.null => calls[i].group.Permissions = NilPermissions
        /\ ~op.plan.permissions.null =>
             ~calls[i].group.Permissions.nil /\ WireShape(calls[i].group.Permissions.v)

C6_Witness ==
  /\ op.name = "Update"
  /\ op.plan.permissions.null
  /\ ~op.prior.permissions.null
  /\ Len(calls) = 1
  /\ calls[1].err = ""

Count(x, s) == Cardinality({i \in 1..Len(s) : s[i] = x})

Ascending(s) == \A i, j \in 1..Len(s) : i < j => ~StrLess(s[j], s[i])

\* C7: the member list Read writes is the ascending permutation of the
\* remote list: same elements with the same multiplicities, in ascending
\* order; a remote list already ascending is written as it is; and any
\* reordering of the remote list would have been written the same.
C7_ReadSortsMembers ==
  (op.name = "Read" /\ diags = <<>>) =>
    LET L == Fetched.UserIDs.elems
        out == [i \in 1..Len(state.user_ids.elems) |-> state.user_ids.elems[i].value]
    IN  /\ \A i \in 1..Len(state.user_ids.elems) : ~state.user_ids.elems[i].null
        /\ Len(out) = Len(L)
        /\ \A x \in UserIdSet : Count(x, out) = Count(x, L)
        /\ Ascending(out)
        /\ Ascending(L) => out = L
        /\ \A s \in SliceSet :
             (s.nil = Fetched.UserIDs.nil /\ Len(s.elems) = Len(L)
                /\ \A x \in UserIdSet : Count(x, s.elems) = Count(x, L))
             => ReadUserIDs([Fetched EXCEPT !.UserIDs = s]) = state.user_ids

C7_Witness ==
  /\ op.name = "Read"
  /\ diags = <<>>
  /\ Fetched.UserIDs.elems = <<<<98>>, <<97, 98>>>>
  /\ state.user_ids.elems = <<ElemValue(<<97, 98>>), ElemValue(<<98>>)>>

\* C8: the member list the data source writes is in ascending order.
C8_DataReadSortsMembers ==
  (op.name = "DataRead" /\ diags = <<>>) =>
    Ascending([i \in 1..Len(data.user_ids.elems) |-> data.user_ids.elems[i].value])

\* What a handler itself puts into a diagnostic: the summary and the detail
\* without the client's error text, which it embeds as it got it.
OwnPart(d, err) ==
  [summary |-> d.summary, detail |-> SelectSeq(d.detail, LAMBDA x : x # err)]

\* C9: for a NotFound of the get call, Read answers otherwise than for a
\* transport failure of it: with another diagnostic of its own, or by
\* dropping the record.
C9_ReadNotFoundDistinct ==
  (op.name = "Read" /\ calls[1].err = ErrNotFound) =>
    \/ state = NoState
    \/ /\ Len(diags) = 1
       /\ OwnPart(diags[1], ErrNotFound) #
            OwnPart(ReadErrorDiag(calls[1].id, ErrTransport), ErrTransport)

\* C10: the update call of Update carries the plan in full, whatever the
\* prior record: name, description, member list and, for non-null
\* permissions, each of the 33 flags; after a change of the name alone the 33
\* flags sent are the stored ones.
C10_UpdateFullReplace ==
  (op.name = "Update" /\ calls # <<>>) =>
    /\ Len(calls) = 1
    /\ calls[1].method = "Update"
    /\ FullPayload(op.plan, calls[1].group)
    /\ ( /\ op.prior.name # op.plan.name
         /\ op.prior.description = op.plan.description
         /\ op.prior.user_ids = op.plan.user_ids
         /\ op.prior.permissions = op.plan.permissions
         /\ ~op.prior.permissions.null )
       => SameFlags(op.prior.permissions.attrs, calls[1].group.Permissions.v)

C10_Witness ==
  /\ op.name = "Update"
  /\ Len(calls) = 1
  /\ calls[1].err = ""
  /\ op.prior.name # op.plan.name
  /\ op.prior.description = op.plan.description
  /\ op.prior.user_ids = op.plan.user_ids
  /\ op.prior.permissions = op.plan.permissions
  /\ ~op.prior.permissions.null
  /\ ~op.prior.user_ids.null

\* The listed groups whose name is the queried one.
Named(name) == {i \in 1..Len(remote.groups) : remote.groups[i].Name = name}

\* The record holds what the group holds: id, description, members in the
\* group's order, permissions flag for flag, and both timestamps.
RecordOf(d, g) ==
  /\ d.id = StringValue(g.ID)
  /\ d.description = StringValue(g.Description)
  /\ d.user_ids.null = g.UserIDs.nil
  /\ Len(d.user_ids.elems) = Len(g.UserIDs.elems)
  /\ \A i \in 1..Len(g.UserIDs.elems) : d.user_ids.elems[i] = ElemValue(g.UserIDs.elems[i])
  /\ d.permissions.null = g.Permissions.nil
  /\ ~g.Permissions.nil => SameFlags(d.permissions.attrs, g.Permissions.v)
  /\ d.created_at = Int64Value(g.CreatedAt)
  /\ d.updated_at = Int64Value(g.UpdatedAt)

\* C11: when the list call succeeds, the data source writes the record of the
\* first group in list order whose name equals the query, every field taken
\* from that one group; it reports "Group Not Found" and writes nothing
\* exactly when no listed group has the name.
C11_LookupFirstMatch ==
  (op.name = "DataRead" /\ calls[1].err = "") =>
    LET name == op.plan.name.value
        m == Named(name)
    IN  /\ (m = {}) <=> (Len(diags) = 1 /\ diags[1].summary = "Group Not Found")
        /\ m = {} => data = NoState
        /\ m # {} =>
             /\ diags = <<>>
             /\ data # NoState
             /\ data.name = StringValue(name)
             /\ \E i \in m :
                  /\ \A j \in m : i <= j
                  /\ RecordOf(data, remote.groups[i])

C11_Witness ==
  /\ op.name = "DataRead"
  /\ Len(remote.groups) = 2
  /\ remote.groups[1].Name = "ops"
  /\ remote.groups[2].Name = "ops"
  /\ remote.groups[1].UserIDs # remote.groups[2].UserIDs
  /\ remote.groups[1].Permissions # remote.groups[2].Permissions
  /\ data # NoState
  /\ data.id = StringValue("g1")

\* C12: when the permissions object of the response lacks one of the fixed
\* flags, Read and the data source report an error and write no record: the
\* missing flag never reaches the state as false.
C12_MissingFlagIsShapeError ==
  ( /\ op.name \in {"Read", "DataRead"}
    /\ wire.given
    /\ JsonMissing(wire) # {}
    /\ calls[1].err = ""
    /\ op.name = "DataRead" => Named(op.plan.name.value) # {} )
  => (diags # <<>> /\ ~op.set)

\* C13: Delete issues one call, a delete of the stored record's id; it
\* reports an error exactly when that call failed, NotFound included, and
\* then the record stays; after a call without error the record is gone.
C13_DeleteSurfacesErrors ==
  op.name = "Delete" =>
    /\ Len(calls) = 1
    /\ calls[1].method = "Delete"
    /\ calls[1].id = op.prior.id.value
    /\ (calls[1].err = "") <=> (diags = <<>>)
    /\ calls[1].err # "" =>
         /\ Len(diags) = 1
         /\ \E i \in 1..Len(diags[1].detail) : diags[1].detail[i] = calls[1].err
         /\ state = op.prior
    /\ calls[1].err = "" => state = NoState

C13_Witness ==
  /\ op.name = "Delete"
  /\ calls[1].err = ErrNotFound
  /\ diags # <<>>
  /\ state # NoState

\* C14: ImportState issues no remote call and reports nothing, whether or not
\* a group of the id exists: it leaves a record holding the id alone. For an
\* id no remote group has, the error comes from the get call of the Read
\* that follows.
C14_ImportWithoutLookup ==
  /\ op.name = "ImportState" =>
       /\ calls = <<>>
       /\ diags = <<>>
       /\ state # NoState
       /\ ~state.id.null
       /\ state.name.null /\ state.description.null
       /\ state.user_ids.null /\ state.permissions.null
  /\ ( /\ op.name = "Read"
       /\ op.prior.name.null
       /\ IndexOf(remote.groups, op.prior.id.value) = 0 )
     => /\ Len(calls) = 1
        /\ calls[1].method = "Get"
        /\ calls[1].err # ""
        /\ Len(diags) = 1
        /\ diags[1].summary = "Error reading group"

C14_Witness ==
  /\ op.name = "Read"
  /\ op.prior = ImportModel("g9")
  /\ remote.groups # <<>>
  /\ calls[1].err = ErrNotFound
  /\ diags # <<>>

\* C15: every invocation of Create, Read, Update, Delete and of the data
\* source ends in one of two ways: without error and with the state set
\* (removed, for Delete), or with an error and the host's record as it was
\* before the invocation (no record, for the data source).
C15_NoPartialSuccess ==
  /\ op.name \in {"Create", "Read", "Update"} =>
       \/ diags = <<>> /\ op.set /\ state # NoState
       \/ diags # <<>> /\ ~op.set /\ state = op.prior
  /\ op.name = "Delete" =>
       \/ diags = <<>> /\ state = NoState
       \/ diags # <<>> /\ state = op.prior
  /\ op.name = "DataRead" =>
       \/ diags = <<>> /\ op.set /\ data # NoState
       \/ diags # <<>> /\ ~op.set /\ data = NoState

C15_Witness ==
  /\ op.name = "Update"
  /\ calls # <<>>
  /\ diags # <<>>
  /\ op.plan.name # op.prior.name
  /\ state = op.prior
  /\ data # NoState

\* The calls of an invocation are of these methods, in this order.
CallsAre(methods) ==
  /\ Len(calls) = Len(methods)
  /\ \A i \in 1..Len(calls) : calls[i].method = methods[i]

\* A failed call is the last call of its invocation, which ends with an error.
FailedCallEnds ==
  \A i \in 1..Len(calls) : calls[i].err # "" => (i = Len(calls) /\ diags # <<>>)

\* C16, as claimed: Read, Update, Delete and the data source issue exactly
\* one remote call each (get, update, delete, list), Create one create and
\* then at most one update, and a failed call is followed by no further call
\* and by an error.
C16_ExactlyOneCall ==
  /\ op.name = "Read" => CallsAre(<<"Get">>)
  /\ op.name = "Update" => CallsAre(<<"Update">>)
  /\ op.name = "Delete" => CallsAre(<<"Delete">>)
  /\ op.name = "DataRead" => CallsAre(<<"List">>)
  /\ op.name = "Create" => (CallsAre(<<"Create">>) \/ CallsAre(<<"Create", "Update">>))
  /\ FailedCallEnds

\* C16, amended: as claimed, except that an Update whose plan's member list
\* holds a null element issues no remote call at all and ends with an error;
\* every other Update issues exactly one update call.
C16_NoRetry ==
  /\ op.name = "Read" => CallsAre(<<"Get">>)
  /\ op.name = "Update" =>
       IF ElementsAsOk(op.plan.user_ids) THEN CallsAre(<<"Update">>)
       ELSE calls = <<>> /\ diags # <<>>
  /\ op.name = "Delete" => CallsAre(<<"Delete">>)
  /\ op.name = "DataRead" => CallsAre(<<"List">>)
  /\ op.name = "Create" => (CallsAre(<<"Create">>) \/ CallsAre(<<"Create", "Update">>))
  /\ FailedCallEnds

C16_Witness ==
  /\ op.name = "Read"
  /\ Len(calls) = 1
  /\ calls[1].err = ErrTransport
  /\ Len(diags) = 1
  /\ data # NoState

\* C17: while a record is stored, no invocation changes its id, and every
\* get, update and delete call of Read, Update and Delete targets the id of
\* the record stored when the invocation began.
C17_IdImmutable ==
  [][ /\ (state # NoState /\ state' # NoState) => state'.id = state.id
      /\ (state # NoState /\ op'.name \in {"Read", "Update", "Delete"}) =>
           \A i \in 1..Len(calls') :
             /\ calls'[i].method \in {"Get", "Update", "Delete"}
             /\ calls'[i].id = state.id.value
             /\ ~state.id.null ]_vars

C17_Witness ==
  /\ op.name = "Update"
  /\ diags = <<>>
  /\ op.prior.name # state.name
  /\ state.id = op.prior.id
  /\ calls[1].id = state.id.value

\* C18: Create leaves a record only after its create call and its update
\* call both succeeded; the record holds the id of a remote group that
\* carries the plan in full. After a Create that stopped earlier there is no
\* record: the stage between the two calls is never recorded.
C18_CreatedStageNotRecorded ==
  op.name = "Create" =>
    /\ (Len(calls) < 2 \/ calls[Len(calls)].err # "") => (state = NoState /\ ~op.set)
    /\ state # NoState =>
         /\ CallsAre(<<"Create", "Update">>)
         /\ calls[1].err = "" /\ calls[2].err = ""
         /\ state.id = StringValue(calls[1].ret)
         /\ IndexOf(remote.groups, state.id.value) # 0
         /\ FullPayload(op.plan, remote.groups[IndexOf(remote.groups, state.id.value)])

C18_Witness ==
  /\ op.name = "Create"
  /\ state # NoState
  /\ state.id = StringValue("g1")
  /\ ~op.plan.permissions.null
  /\ ~op.plan.user_ids.null
  /\ ~remote.groups[1].Permissions.nil

\* C19: a Create whose create call succeeded goes on to issue its update
\* call; it never returns between the two.
C19_CreateReachesUpdate ==
  (op.name = "Create" /\ calls[1].err = "") =>
    /\ Len(calls) = 2
    /\ calls[2].method = "Update"
    /\ calls[2].id = calls[1].ret

\* C20: the Read that follows a successful Create writes the record Create
\* wrote (id, name, description, user_ids, permissions), and the Read that
\* follows a successful Read writes that record again.
C20_CreateReadConverges ==
  [][ ( /\ op.name \in {"Create", "Read"}
        /\ op.set
        /\ op'.name = "Read"
        /\ diags' = <<>> )
      => state' = state ]_vars

====
